---- MODULE Spec2Model ----
(***************************************************************************)
(* Model of cursor2api's Anthropic Messages handler                        *)
(* (internal/handler/anthropic.go) and of the refusal classifier           *)
(* (internal/tools/intent.go).                                             *)
(*                                                                         *)
(* Text is modelled as TLA+ strings, read character by character with      *)
(* Len, SubSeq and \o.  The module's strings are ASCII: the Chinese        *)
(* phrases and messages of the source are written as the stand-ins         *)
(* "{zh:...}", which no other text of the model contains.                  *)
(***************************************************************************)
EXTENDS Integers, Sequences, FiniteSets, TLC

VARIABLES
    stream,        \* req.Stream: which of handleStream / handleNonStream runs
    upstream,      \* the whole body the upstream source has to deliver
    pos,           \* how much of upstream the source has delivered so far
    pc,            \* position of the handler
    buffer,        \* handleStream: var buffer strings.Builder (pending partial line)
    fullResponse,  \* handleStream: fullResponse; handleNonStream: fullText
    events,        \* the SSE events written to c.Writer, in order
    toolCalls,     \* toolCalls returned by toolParser.ParseToolCalls
    toolIdx,       \* handleStream: loop variable i of the tool loop
    remainingText, \* handleNonStream: remainingText returned by ParseToolCalls
    stopReason,    \* handleStream: stopReason
    reply,         \* handleNonStream: the c.JSON(...) answer, <<>> while none
    execLog,       \* the calls made to toolExecutor.Execute, in order
    frames,        \* history (SpecFeed): every line Feed has returned
    decoded,       \* history: every CursorSSEEvent the chunk callback decoded
    source,        \* history: how each call of the upstream source returned
    probe          \* SpecIntent: a text and what the classifier made of it

vars == <<stream, upstream, pos, pc, buffer, fullResponse, events, toolCalls,
          toolIdx, remainingText, stopReason, reply, execLog, frames, decoded,
          source, probe>>

(***************************************************************************)
(* Bounds of the model.                                                    *)
(***************************************************************************)
MaxLines == 2      \* lines of a generated upstream body
MaxText == 4       \* characters of a text fed to the reassembler alone
MaxTools == 2      \* tool calls the parser may return
MaxPieces == 2     \* pieces of a text given to the classifier alone
MaxMessages == 2   \* messages given to ParseUserIntent

(***************************************************************************)
(* Go's strings package, as far as the handler uses it.                    *)
(***************************************************************************)
\* s[i-1:j] clipped to the string: the characters of s at the indices i..j that
\* s has (indices are 1-based).
Sub(s, i, j) == SubSeq(s, IF i < 1 THEN 1 ELSE i, IF j > Len(s) THEN Len(s) ELSE j)

\* The character of s at index i; "" when s has none there.
Ch(s, i) == IF 1 <= i /\ i <= Len(s) THEN SubSeq(s, i, i) ELSE ""

HasPrefix(s, p) == Len(s) >= Len(p) /\ Sub(s, 1, Len(p)) = p

HasSuffix(s, p) == Len(s) >= Len(p) /\ Sub(s, Len(s) - Len(p) + 1, Len(s)) = p

TrimPrefix(s, p) == IF HasPrefix(s, p) THEN Sub(s, Len(p) + 1, Len(s)) ELSE s

\* strings.Index, 1-based; 0 when sub does not occur in s.
Index(s, sub) ==
    LET hits == {i \in 1..(Len(s) - Len(sub) + 1) : SubSeq(s, i, i + Len(sub) - 1) = sub}
    IN  IF hits = {} THEN 0 ELSE CHOOSE i \in hits : \A j \in hits : i <= j

Contains(s, sub) == Index(s, sub) # 0

\* strings.Split(s, sep) for a one-character sep: n separators give n+1 parts.
RECURSIVE Split(_, _)
Split(s, sep) ==
    LET i == Index(s, sep)
    IN  IF i = 0 THEN <<s>>
        ELSE <<Sub(s, 1, i - 1)>> \o Split(Sub(s, i + 1, Len(s)), sep)

UpperLetters == "ABCDEFGHIJKLMNOPQRSTUVWXYZ"
LowerLetters == "abcdefghijklmnopqrstuvwxyz"

ToLowerChar(c) ==
    LET i == Index(UpperLetters, c) IN IF c = "" \/ i = 0 THEN c ELSE Ch(LowerLetters, i)

\* strings.ToLower within ASCII.  (A character map is computed eight
\* characters at a time, which keeps the evaluation shallow; Ch is "" after the
\* end of the string.)
RECURSIVE ToLower(_)
ToLower(s) ==
    IF s = "" THEN ""
    ELSE ToLowerChar(Ch(s, 1)) \o ToLowerChar(Ch(s, 2)) \o ToLowerChar(Ch(s, 3))
         \o ToLowerChar(Ch(s, 4)) \o ToLowerChar(Ch(s, 5)) \o ToLowerChar(Ch(s, 6))
         \o ToLowerChar(Ch(s, 7)) \o ToLowerChar(Ch(s, 8)) \o ToLower(Sub(s, 9, Len(s)))

\* White space of strings.TrimSpace and of the regexp class \s, within ASCII.
\* (Ch is "" outside the string, which is no space.)
IsSpace(c) == c \in {" ", "\t", "\n", "\r", "\f"}

\* The number of white-space characters s has in a row from index i on.
RECURSIVE SpaceRun(_, _)
SpaceRun(s, i) == IF IsSpace(Ch(s, i)) THEN 1 + SpaceRun(s, i + 1) ELSE 0

\* The number of white-space characters s has in a row before index i.
RECURSIVE SpaceRunBack(_, _)
SpaceRunBack(s, i) == IF IsSpace(Ch(s, i - 1)) THEN 1 + SpaceRunBack(s, i - 1) ELSE 0

\* strings.TrimSpace
TrimSpace(s) ==
    IF SpaceRun(s, 1) = Len(s) THEN ""
    ELSE Sub(s, 1 + SpaceRun(s, 1), Len(s) - SpaceRunBack(s, Len(s) + 1))

RECURSIVE ConcatAll(_)
ConcatAll(ss) == IF ss = <<>> THEN "" ELSE Head(ss) \o ConcatAll(Tail(ss))

(***************************************************************************)
(* encoding/json, as far as the handler uses it.                           *)
(*                                                                         *)
(* Unmarshal decodes a payload into a CursorSSEEvent {Type, Delta}.  It    *)
(* reads the JSON the upstream sends: an object whose members are strings  *)
(* (and the literal null); every other text is a decoding error.           *)
(***************************************************************************)
\* The index of the first character of s at or after i that is no JSON white
\* space; Len(s)+1 when there is none.
RECURSIVE SkipWs(_, _)
SkipWs(s, i) == IF Ch(s, i) \in {" ", "\t", "\n", "\r"} THEN SkipWs(s, i + 1) ELSE i

\* The character an escape \c of a JSON string stands for; "" when \c is no escape.
UnescapeChar(c) ==
    CASE c = "\"" -> "\""
      [] c = "\\" -> "\\"
      [] c = "/"  -> "/"
      [] c = "n"  -> "\n"
      [] c = "t"  -> "\t"
      [] c = "r"  -> "\r"
      [] c = "f"  -> "\f"
      [] OTHER    -> ""

\* The character an escape \uXXXX stands for, for the four codes json.Marshal
\* writes within the characters of this model; "" for every other text.
UnescapeUnicode(hex) ==
    CASE ToLower(hex) = "003c" -> "<"
      [] ToLower(hex) = "003e" -> ">"
      [] ToLower(hex) = "0026" -> "&"
      [] ToLower(hex) = "000c" -> "\f"
      [] OTHER                 -> ""

\* type CursorSSEEvent struct { Type, Delta string }, zero value.
ZeroEvent == [Type |-> "", Delta |-> ""]

UnmarshalError == [ok |-> FALSE, event |-> ZeroEvent]

ScanError == [ok |-> FALSE, val |-> "", next |-> 0]

\* The index of the first quote or backslash of s at or after i; Len(s)+1 when
\* there is none.
StringStop(s, i) ==
    LET stops == {j \in i..(Len(s) + 1) : j = Len(s) + 1 \/ SubSeq(s, j, j) \in {"\"", "\\"}}
    IN  CHOOSE j \in stops : \A k \in stops : j <= k

\* Reads a JSON string whose opening quote is before index i, one run of plain
\* characters and one escape at a time: val is the string read (after acc) and
\* next the index after its closing quote.  e is StringStop(s, i).
RECURSIVE ScanStringTo(_, _, _, _)
ScanStringTo(s, i, e, acc) ==
    IF e > Len(s) \/ \E j \in i..(e - 1) : SubSeq(s, j, j) \in {"\n", "\t", "\r", "\f"}
    THEN ScanError
    ELSE IF Ch(s, e) = "\""
    THEN [ok |-> TRUE, val |-> acc \o Sub(s, i, e - 1), next |-> e + 1]
    ELSE IF Ch(s, e + 1) = "u"
    THEN IF UnescapeUnicode(Sub(s, e + 2, e + 5)) = "" THEN ScanError
         ELSE ScanStringTo(s, e + 6, StringStop(s, e + 6),
                           acc \o Sub(s, i, e - 1) \o UnescapeUnicode(Sub(s, e + 2, e + 5)))
    ELSE IF UnescapeChar(Ch(s, e + 1)) = ""
    THEN ScanError
    ELSE ScanStringTo(s, e + 2, StringStop(s, e + 2),
                      acc \o Sub(s, i, e - 1) \o UnescapeChar(Ch(s, e + 1)))

ScanString(s, i) == ScanStringTo(s, i, StringStop(s, i), "")

\* Sets the field of ev that the member key names (field names match
\* case-insensitively); other members are ignored.
SetField(ev, key, val) ==
    IF ToLower(key) = "type" THEN [ev EXCEPT !.Type = val]
    ELSE IF ToLower(key) = "delta" THEN [ev EXCEPT !.Delta = val]
    ELSE ev

\* The members of an object, read one after the other: ScanMembers is at the
\* quote that opens a key, MemberColon after the key k, MemberValue after the
\* value v of the member named key, MemberEnd at the index e after the member.
RECURSIVE ScanMembers(_, _, _)
RECURSIVE MemberColon(_, _, _)
RECURSIVE MemberValue(_, _, _, _)
RECURSIVE MemberEnd(_, _, _)
ScanMembers(s, i, ev) ==
    IF Ch(s, i) # "\"" THEN UnmarshalError ELSE MemberColon(s, ScanString(s, i + 1), ev)

MemberColon(s, k, ev) ==
    IF ~k.ok \/ Ch(s, SkipWs(s, k.next)) # ":" THEN UnmarshalError
    ELSE IF Ch(s, SkipWs(s, SkipWs(s, k.next) + 1)) # "\"" THEN UnmarshalError
    ELSE MemberValue(s, k.val, ScanString(s, SkipWs(s, SkipWs(s, k.next) + 1) + 1), ev)

MemberValue(s, key, v, ev) ==
    IF ~v.ok THEN UnmarshalError
    ELSE MemberEnd(s, SkipWs(s, v.next), SetField(ev, key, v.val))

MemberEnd(s, e, ev) ==
    IF Ch(s, e) = "," THEN ScanMembers(s, SkipWs(s, e + 1), ev)
    ELSE IF Ch(s, e) = "}" /\ SkipWs(s, e + 1) > Len(s) THEN [ok |-> TRUE, event |-> ev]
    ELSE UnmarshalError

\* The object whose opening brace is before index j.
UnmarshalObject(data, j) ==
    IF Ch(data, j) = "}" /\ SkipWs(data, j + 1) > Len(data)
    THEN [ok |-> TRUE, event |-> ZeroEvent]
    ELSE ScanMembers(data, j, ZeroEvent)

\* json.Unmarshal([]byte(data), &event)
Unmarshal(data) ==
    IF TrimSpace(data) = "null" THEN [ok |-> TRUE, event |-> ZeroEvent]
    ELSE IF Ch(data, SkipWs(data, 1)) # "{" THEN UnmarshalError
    ELSE UnmarshalObject(data, SkipWs(data, SkipWs(data, 1) + 1))

\* What json.Marshal writes for one character of a string.
MarshalChar(c) ==
    CASE c = ""   -> ""
      [] c = "\"" -> "\\\""
      [] c = "\\" -> "\\\\"
      [] c = "\n" -> "\\n"
      [] c = "\r" -> "\\r"
      [] c = "\t" -> "\\t"
      [] c = "\f" -> "\\u000c"
      [] c = "<"  -> "\\u003c"
      [] c = ">"  -> "\\u003e"
      [] c = "&"  -> "\\u0026"
      [] OTHER    -> c

RECURSIVE MarshalChars(_)
MarshalChars(s) ==
    IF s = "" THEN ""
    ELSE MarshalChar(Ch(s, 1)) \o MarshalChar(Ch(s, 2)) \o MarshalChar(Ch(s, 3))
         \o MarshalChar(Ch(s, 4)) \o MarshalChar(Ch(s, 5)) \o MarshalChar(Ch(s, 6))
         \o MarshalChar(Ch(s, 7)) \o MarshalChar(Ch(s, 8)) \o MarshalChars(Sub(s, 9, Len(s)))

\* json.Marshal of a Go string: the quoted, escaped JSON string.
MarshalString(s) == "\"" \o MarshalChars(s) \o "\""

(***************************************************************************)
(* internal/tools/intent.go: the refusal classifier.                       *)
(***************************************************************************)
\* refusalPatterns of DetectRefusal, in source order.  The "{zh:...}" entries
\* stand for the Chinese phrases of the source (pinyin of each phrase).
refusalPatterns ==
    << "{zh:wufa-zhijie}",       \* cannot directly
       "{zh:wufa-zhixing}",      \* cannot execute
       "{zh:buneng-zhixing}",    \* may not execute
       "{zh:shoudaole-xianzhi}", \* has been restricted
       "{zh:meiyou-quanxian}",   \* no permission
       "{zh:wufa-bangni}",       \* cannot help you
       "cannot directly",
       "unable to",
       "don't have access",
       "I can't",
       "{zh:wo-buneng}",         \* I may not
       "{zh:wo-wufa}",           \* I cannot
       "{zh:qing-zai-nide-zhongduan}",  \* please, in your terminal
       "{zh:qing-zai-bendi}",    \* please, locally
       "{zh:ni-xuyao-zai}",      \* you need to ... in
       "{zh:ni-keyi-yunxing}" >> \* you can run

\* Mutant of DetectRefusal: the response is compared without being lowercased.
DetectRefusalCaseSensitive(response) ==
    \E i \in 1..Len(refusalPatterns) : Contains(response, ToLower(refusalPatterns[i]))

\* Mutant of DetectRefusal: the response has to be a pattern, not to hold one.
DetectRefusalWholeText(response) ==
    \E i \in 1..Len(refusalPatterns) : ToLower(response) = ToLower(refusalPatterns[i])

\* func DetectRefusal(response string) bool
DetectRefusal(response) ==
    LET responseLower == ToLower(response)
    IN  \E i \in 1..Len(refusalPatterns) :
            Contains(responseLower, ToLower(refusalPatterns[i]))

\* Length of the longest run of non-space characters (regexp \S) that starts at i.
NonSpaceRun(s, i) ==
    LET stops == {j \in i..(Len(s) + 1) : j = Len(s) + 1 \/ IsSpace(Ch(s, j))}
    IN  (CHOOSE j \in stops : \A k \in stops : j <= k) - i

\* The index of the first character c of s at or after i; Len(s)+1 when none.
NextChar(s, i, c) ==
    LET stops == {j \in i..(Len(s) + 1) : j = Len(s) + 1 \/ Ch(s, j) = c}
    IN  CHOOSE j \in stops : \A k \in stops : j <= k

\* The positions where the regexp assertion (?m)^ holds.
LineStarts(s) == {i \in 1..(Len(s) + 1) : i = 1 \/ Ch(s, i - 1) = "\n"}

NoMatch == [found |-> FALSE, text |-> ""]

\* The backquote character.  A TLA+ string cannot hold one: "~" stands for it in
\* every text of the model, and no text of the model uses "~" otherwise.
Backquote == "~"

Fence == Backquote \o Backquote \o Backquote
codeBlockLangs == <<"bash", "sh", "">>

\* The matches of codeBlockRe = FENCE(?:bash|sh)?\s*\n([^BQ]+)\nFENCE that start
\* at i (BQ the backquote, FENCE three of them), as <<a, w>>: the alternative of
\* (?:bash|sh)? taken and the length of \s*.  The group [^BQ]+ then runs from the
\* character after \n up to the \nFENCE that must end it: the first backquote
\* after the group has to open the closing fence.
CodeBlockChoices(s, i) ==
    IF Sub(s, i, i + 2) # Fence THEN {}
    ELSE {c \in (1..Len(codeBlockLangs)) \X (0..Len(s)) :
            LET lang == codeBlockLangs[c[1]]
                j1   == i + 3 + Len(lang)
                j2   == j1 + c[2]
                b    == j2 + 1
                q    == NextChar(s, b, Backquote)
            IN  /\ Sub(s, i + 3, j1 - 1) = lang
                /\ c[2] <= SpaceRun(s, j1)
                /\ j2 <= Len(s) /\ Ch(s, j2) = "\n"
                /\ q <= Len(s) /\ Sub(s, q, q + 2) = Fence
                /\ q - 1 > b /\ Ch(s, q - 1) = "\n"}

\* The group of the match the regexp engine prefers at i: the first alternative
\* that matches, then the longest \s* (both are greedy).
CodeBlockGroupAt(s, i) ==
    LET cs   == CodeBlockChoices(s, i)
        best == CHOOSE c \in cs : \A d \in cs :
                    c[1] < d[1] \/ (c[1] = d[1] /\ c[2] >= d[2])
        b    == i + 3 + Len(codeBlockLangs[best[1]]) + best[2] + 1
    IN  Sub(s, b, NextChar(s, b, Backquote) - 2)

\* codeBlockRe.FindStringSubmatch(response): the leftmost match, its group 1.
FindCodeBlock(s) ==
    LET starts == {i \in 1..Len(s) : CodeBlockChoices(s, i) # {}}
    IN  IF starts = {} THEN NoMatch
        ELSE [found |-> TRUE,
              text  |-> CodeBlockGroupAt(s, CHOOSE i \in starts : \A j \in starts : i <= j)]

shellVerbs == <<"cat", "echo", "mkdir", "touch", "rm", "cp", "mv", "ls", "cd", "pwd">>

\* The matches of (?m)^\s*(cat|echo|...|pwd)\s+.+$ that start at line start i, as
\* <<v, w>>: the verb taken and the length of \s+.  \s* is the whole run of white
\* space at i (a verb starts with a non-space), and .+ runs to the end of its line.
VerbLineChoices(s, i) ==
    LET t == i + SpaceRun(s, i)
    IN  {c \in (1..Len(shellVerbs)) \X (1..Len(s)) :
            LET verb == shellVerbs[c[1]]
                a    == t + Len(verb)
                p    == a + c[2]
            IN  /\ Sub(s, t, a - 1) = verb
                /\ c[2] <= SpaceRun(s, a)
                /\ p <= Len(s) /\ Ch(s, p) # "\n"}

VerbLineAt(s, i) ==
    LET cs   == VerbLineChoices(s, i)
        best == CHOOSE c \in cs : \A d \in cs :
                    c[1] < d[1] \/ (c[1] = d[1] /\ c[2] >= d[2])
        p    == i + SpaceRun(s, i) + Len(shellVerbs[best[1]]) + best[2]
    IN  Sub(s, i, NextChar(s, p, "\n") - 1)

\* cmdPatterns[0].FindString(response)
FindVerbLine(s) ==
    LET starts == {i \in LineStarts(s) : VerbLineChoices(s, i) # {}}
    IN  IF starts = {} THEN NoMatch
        ELSE [found |-> TRUE,
              text  |-> VerbLineAt(s, CHOOSE i \in starts : \A j \in starts : i <= j)]

\* The end of the match of (?m)^\s*(\S+)\s+>\s+\S+ that starts at line start i,
\* 0 when there is none.  Every repetition is forced to the whole run it starts:
\* \S+ is followed by white space, ">" by white space, and so on.
RedirectEndAt(s, i) ==
    LET t  == i + SpaceRun(s, i)
        n1 == NonSpaceRun(s, t)
        g  == t + n1 + SpaceRun(s, t + n1)
        u  == g + 1 + SpaceRun(s, g + 1)
    IN  IF /\ n1 >= 1
           /\ SpaceRun(s, t + n1) >= 1
           /\ g <= Len(s) /\ Ch(s, g) = ">"
           /\ SpaceRun(s, g + 1) >= 1
           /\ NonSpaceRun(s, u) >= 1
        THEN u + NonSpaceRun(s, u) - 1
        ELSE 0

\* cmdPatterns[1].FindString(response)
FindRedirect(s) ==
    LET starts == {i \in LineStarts(s) : RedirectEndAt(s, i) # 0}
        first  == CHOOSE i \in starts : \A j \in starts : i <= j
    IN  IF starts = {} THEN NoMatch
        ELSE [found |-> TRUE, text |-> Sub(s, first, RedirectEndAt(s, first))]

\* Mutant of ExtractCommandFromRefusal: the verb pattern is tried before the
\* code block.
ExtractCommandVerbFirst(response) ==
    IF FindVerbLine(response).found THEN TrimSpace(FindVerbLine(response).text)
    ELSE IF FindCodeBlock(response).found THEN TrimSpace(FindCodeBlock(response).text)
    ELSE IF FindRedirect(response).found THEN TrimSpace(FindRedirect(response).text)
    ELSE ""

\* func ExtractCommandFromRefusal(response string) string
ExtractCommandFromRefusal(response) ==
    IF FindCodeBlock(response).found THEN TrimSpace(FindCodeBlock(response).text)
    ELSE IF FindVerbLine(response).found THEN TrimSpace(FindVerbLine(response).text)
    ELSE IF FindRedirect(response).found THEN TrimSpace(FindRedirect(response).text)
    ELSE ""

(***************************************************************************)
(* internal/tools/intent.go: ParseUserIntent.  The Chinese characters of   *)
(* its patterns are written "{zh:pinyin}", one stand-in per character.     *)
(***************************************************************************)
\* strings.Join(messages, sep)
RECURSIVE Join(_, _)
Join(ss, sep) ==
    IF ss = <<>> THEN ""
    ELSE IF Len(ss) = 1 THEN ss[1]
    ELSE ss[1] \o sep \o Join(Tail(ss), sep)

Min(S) == CHOOSE i \in S : \A j \in S : i <= j

Max(S) == CHOOSE i \in S : \A j \in S : i >= j

\* The positions at which sub occurs in s.
Occurrences(s, sub) ==
    {i \in 1..(Len(s) - Len(sub) + 1) : SubSeq(s, i, i + Len(sub) - 1) = sub}

\* The number of characters of the class Is that s has in a row from index i on.
RunOf(s, i, Is(_)) ==
    Min({j \in i..(Len(s) + 1) : j = Len(s) + 1 \/ ~Is(Ch(s, j))}) - i

\* The character classes of the patterns: ['"], [^'"], \w.
IsQuote(c) == c \in {"'", "\""}

NotQuote(c) == c # "" /\ ~IsQuote(c)

WordChars == "0123456789ABCDEFGHIJKLMNOPQRSTUVWXYZ_abcdefghijklmnopqrstuvwxyz"

IsWord(c) == c # "" /\ Occurrences(WordChars, c) # {}

\* The three forms of the action patterns: a, a.*?b and a\s+.
Lit(a) == [kind |-> "lit", a |-> a, b |-> ""]

Gap(a, b) == [kind |-> "gap", a |-> a, b |-> b]

Spaced(a) == [kind |-> "space", a |-> a, b |-> ""]

\* regexp.MatchString(pattern, text): the pattern matches somewhere in text
\* (. matches no line break).
MatchString(pattern, text) ==
    CASE pattern.kind = "lit"   -> Occurrences(text, pattern.a) # {}
      [] pattern.kind = "space" ->
            \E i \in Occurrences(text, pattern.a) : IsSpace(Ch(text, i + Len(pattern.a)))
      [] OTHER ->
            \E i \in Occurrences(text, pattern.a), j \in Occurrences(text, pattern.b) :
                /\ j >= i + Len(pattern.a)
                /\ \A k \in (i + Len(pattern.a))..(j - 1) : Ch(text, k) # "\n"

createPatterns ==
    << Gap("{zh:chuang}{zh:jian}", "{zh:wen}{zh:jian2}"),
       Gap("create", "file"),
       Gap("{zh:xie}{zh:ru}", "{zh:wen}{zh:jian2}"),
       Gap("write", "to"),
       Lit("{zh:bang}{zh:wo}{zh:chuang}{zh:jian}"),
       Lit("{zh:xin}{zh:jian}") >>

readPatterns ==
    << Gap("{zh:du}{zh:qu}", "{zh:wen}{zh:jian2}"),
       Gap("read", "file"),
       Gap("{zh:cha}{zh:kan}", "{zh:wen}{zh:jian2}"),
       Gap("{zh:kan}", "{zh:nei}{zh:rong}"),
       Spaced("cat") >>

cmdPatterns ==
    << Gap("{zh:zhi}{zh:xing}", "{zh:ming}{zh:ling}"),
       Gap("run", "command"),
       Lit("{zh:yun}{zh:xing}"),
       Lit("execute") >>

\* One of the three loops over action patterns: the action is set when a
\* pattern of the list matches, and left as it is otherwise.
SetAction(action, patterns, name, text) ==
    IF \E i \in 1..Len(patterns) : MatchString(patterns[i], text) THEN name ELSE action

\* intent.Action after the three loops, in source order.
GuessAction(text) ==
    SetAction(SetAction(SetAction("", createPatterns, "create_file", text),
                        readPatterns, "read_file", text),
              cmdPatterns, "run_command", text)

\* The group of the leftmost match of a pattern whose group at index i is
\* At(s, i) ("" where the pattern does not match at i).
FirstGroup(s, At(_, _)) ==
    IF \A i \in 1..Len(s) : At(s, i) = "" THEN NoMatch
    ELSE [found |-> TRUE, text |-> At(s, Min({i \in 1..Len(s) : At(s, i) # ""}))]

\* pathPatterns[0]: quote, (a slash and characters that are no quotes), quote.
PathRootedAt(s, i) ==
    IF /\ IsQuote(Ch(s, i))
       /\ Ch(s, i + 1) = "/"
       /\ RunOf(s, i + 2, NotQuote) >= 1
       /\ IsQuote(Ch(s, i + 2 + RunOf(s, i + 2, NotQuote)))
    THEN Sub(s, i + 1, i + 1 + RunOf(s, i + 2, NotQuote))
    ELSE ""

\* The number of word characters s ends in.
WordRunBack(s) ==
    Max({k \in 0..Len(s) : \A j \in (Len(s) - k + 1)..Len(s) : IsWord(Ch(s, j))})

\* s is characters, a dot and word characters: [^'"]+\.\w+ for a text without
\* quotes.
IsDotted(s) ==
    /\ WordRunBack(s) >= 1
    /\ Len(s) - WordRunBack(s) >= 2
    /\ Ch(s, Len(s) - WordRunBack(s)) = "."

\* pathPatterns[1]: quote, (characters, a dot, word characters), quote.
PathQuotedAt(s, i) ==
    IF /\ IsQuote(Ch(s, i))
       /\ RunOf(s, i + 1, NotQuote) >= 1
       /\ IsQuote(Ch(s, i + 1 + RunOf(s, i + 1, NotQuote)))
       /\ IsDotted(Sub(s, i + 1, i + RunOf(s, i + 1, NotQuote)))
    THEN Sub(s, i + 1, i + RunOf(s, i + 1, NotQuote))
    ELSE ""

\* The dots after index i within the run of non-space characters from i that
\* one to five word characters follow, up to a word boundary.
ExtensionDots(s, i) ==
    {p \in (i + 1)..(i + NonSpaceRun(s, i) - 1) :
        Ch(s, p) = "." /\ RunOf(s, p + 1, IsWord) \in 1..5}

\* pathPatterns[2]: (\S+\.\w{1,5})\b, the longest match from index i.
PathBareAt(s, i) ==
    IF ExtensionDots(s, i) = {} THEN ""
    ELSE Sub(s, i, Max(ExtensionDots(s, i)) + RunOf(s, Max(ExtensionDots(s, i)) + 1, IsWord))

\* intent.FilePath: the group of the first of pathPatterns that matches.
GuessPath(s) ==
    IF FirstGroup(s, PathRootedAt).found THEN FirstGroup(s, PathRootedAt).text
    ELSE IF FirstGroup(s, PathQuotedAt).found THEN FirstGroup(s, PathQuotedAt).text
    ELSE IF FirstGroup(s, PathBareAt).found THEN FirstGroup(s, PathBareAt).text
    ELSE ""

\* The separators after the key of a content pattern: [:\s] (of the class of
\* contentPatterns[0], the colon and white space).
IsSeparator(c) == c = ":" \/ IsSpace(c)

\* ['"]?\s*$ matches s from index j on.
ClosesAt(s, j) ==
    \/ \A k \in j..Len(s) : IsSpace(Ch(s, k))
    \/ IsQuote(Ch(s, j)) /\ \A k \in (j + 1)..Len(s) : IsSpace(Ch(s, k))

\* The lengths the group (.+?) may have from index g on.
GroupLengths(s, g) ==
    {n \in 1..(Len(s) - g + 1) :
        /\ \A k \in g..(g + n - 1) : Ch(s, k) # "\n"
        /\ ClosesAt(s, g + n)}

\* The index at which the group starts after m separators from index i and an
\* opening quote iff q = 1; 0 when there is no such match.
GroupStart(s, i, m, q) ==
    IF (q = 1 => IsQuote(Ch(s, i + m))) /\ GroupLengths(s, i + m + q) # {}
    THEN i + m + q ELSE 0

\* The choices <<m, q>> of a match of the separators from index i on.
GroupChoices(s, i) ==
    {c \in (1..RunOf(s, i, IsSeparator)) \X {0, 1} : GroupStart(s, i, c[1], c[2]) # 0}

\* The preferred choice: the most separators, then the quote taken.
BestChoice(C) == CHOOSE c \in C : \A d \in C : c[1] > d[1] \/ (c[1] = d[1] /\ c[2] >= d[2])

\* The group of key[:\s]+['"]?(.+?)['"]?\s*$ for the key found at index i, i
\* being the index after the key: the shortest group of the preferred choice.
ContentAfter(s, i) ==
    IF GroupChoices(s, i) = {} THEN ""
    ELSE Sub(s, GroupStart(s, i, BestChoice(GroupChoices(s, i))[1],
                           BestChoice(GroupChoices(s, i))[2]),
                GroupStart(s, i, BestChoice(GroupChoices(s, i))[1],
                           BestChoice(GroupChoices(s, i))[2])
                + Min(GroupLengths(s, GroupStart(s, i, BestChoice(GroupChoices(s, i))[1],
                                                 BestChoice(GroupChoices(s, i))[2]))) - 1)

\* contentPatterns[0], contentPatterns[1]: the group at index i of the pattern
\* of the key ((?i): the key in any letter case).
ContentKeyedAt(s, i, key) ==
    IF ToLower(Sub(s, i, i + Len(key) - 1)) = key THEN ContentAfter(s, i + Len(key)) ELSE ""

ContentZhAt(s, i) == ContentKeyedAt(s, i, "{zh:nei}{zh:rong}")

ContentEnAt(s, i) == ContentKeyedAt(s, i, "content")

\* contentPatterns[2]: quote, (characters that are no quotes), quote.
ContentQuotedAt(s, i) ==
    IF /\ IsQuote(Ch(s, i))
       /\ RunOf(s, i + 1, NotQuote) >= 1
       /\ IsQuote(Ch(s, i + 1 + RunOf(s, i + 1, NotQuote)))
    THEN Sub(s, i + 1, i + RunOf(s, i + 1, NotQuote))
    ELSE ""

\* intent.Content: the group of the first of contentPatterns that matches.
GuessContent(s) ==
    IF FirstGroup(s, ContentZhAt).found THEN FirstGroup(s, ContentZhAt).text
    ELSE IF FirstGroup(s, ContentEnAt).found THEN FirstGroup(s, ContentEnAt).text
    ELSE IF FirstGroup(s, ContentQuotedAt).found THEN FirstGroup(s, ContentQuotedAt).text
    ELSE ""

\* func (p *IntentParser) ParseUserIntent(messages []string) *Intent
ParseUserIntent(messages) ==
    [Action   |-> GuessAction(ToLower(Join(messages, " "))),
     FilePath |-> GuessPath(Join(messages, " ")),
     Content  |-> GuessContent(Join(messages, " ")),
     Command  |-> ""]

(***************************************************************************)
(* The collaborators of the handler that are not part of these sources:    *)
(* the upstream source (browser.Service), the tool-call parser             *)
(* (tools.Parser) and the executor (tools.Executor).  Each is modelled by  *)
(* the set of answers its contract allows.                                 *)
(***************************************************************************)
\* Lines an upstream body is made of.
upstreamLines ==
    << "data: {\"type\":\"text-delta\",\"delta\":\"a\"}",
       "data: {\"type\":\"text-delta\",\"delta\":\"b\\n\"}",
       "data: {\"type\":\"x\"}" >>

\* The bodies of exactly n lines, each line ended by a line break.
RECURSIVE Bodies(_)
Bodies(n) ==
    IF n = 0 THEN {""}
    ELSE {b \o upstreamLines[i] \o "\n" : b \in Bodies(n - 1), i \in 1..Len(upstreamLines)}

\* Whole bodies for the cases the generated ones do not reach: a refusal that
\* suggests a fenced command, delivered in two deltas; the same refusal worded
\* "cannot execute"; a refusal that suggests a command on a line of its own; a
\* refusal that suggests none; and a body with a line that is no data line, an
\* empty line, an empty payload, a payload that is no JSON, an empty delta and
\* a delta that needs escaping.
exampleBodies ==
    { "data: {\"type\":\"text-delta\",\"delta\":\"I can't execute that. Run: \"}\ndata: {\"type\":\"text-delta\",\"delta\":\"\\n~~~bash\\nls -la\\n~~~\"}\n",
      "data: {\"type\":\"text-delta\",\"delta\":\"I cannot execute that. Run: \\n~~~bash\\nls -la\\n~~~\"}\n",
      "data: {\"type\":\"text-delta\",\"delta\":\"Unable to do that.\\nls /tmp\\n\"}\n",
      "data: {\"type\":\"text-delta\",\"delta\":\"I can't do that.\"}\n",
      "event: ping\n\ndata: \ndata: {\"type\ndata: {\"type\":\"text-delta\",\"delta\":\"\"}\ndata: {\"delta\":\"<a \\\"b\\\">\",\"type\":\"text-delta\"}\n" }

\* Every body the upstream may have to deliver: up to MaxLines lines, the last
\* one with or without its line break, and the examples.
Upstreams ==
    LET whole == UNION {Bodies(n) : n \in 0..MaxLines}
    IN  whole \cup {Sub(b, 1, Len(b) - 1) : b \in whole \ {""}} \cup exampleBodies

\* The i-th tool call a parser answer holds.  Input is the map call.Input, as
\* the sequence of its <<key, value>> entries in key order.
ToolCall(i) ==
    IF i % 2 = 1
    THEN [Name |-> "bash", Input |-> << <<"command", "ls">> >>]
    ELSE [Name |-> "write_file", Input |-> << <<"content", "say \"hi\"">>, <<"path", "/tmp/a">> >>]

\* toolParser.ParseToolCalls(text): (toolCalls, remainingText).  The contract
\* fixes neither: any number of calls up to MaxTools (none in an empty text),
\* and as remaining text the whole text, a part of it or nothing.
ParseToolCalls(text) ==
    { [toolCalls |-> [i \in 1..n |-> ToolCall(i)], remainingText |-> r] :
        n \in 0..(IF text = "" THEN 0 ELSE MaxTools),
        r \in {text, Sub(text, 1, Len(text) \div 2), ""} }

\* toolExecutor.Execute(name, input): (output, err); failed says err != nil
\* and error is err.Error().
ExecuteOutcomes ==
    { [output |-> "total 0", failed |-> FALSE, error |-> ""],
      [output |-> "", failed |-> TRUE, error |-> "exit status 1"] }

(***************************************************************************)
(* internal/handler/anthropic.go                                           *)
(***************************************************************************)
\* Mutant of Feed: the unfinished last line is dropped instead of kept.
FeedDroppingTail(buf, chunk) ==
    LET content == buf \o chunk
        lines   == Split(content, "\n")
    IN  IF ~HasSuffix(content, "\n") /\ Len(lines) > 0
        THEN [buffer |-> "", lines |-> SubSeq(lines, 1, Len(lines) - 1)]
        ELSE [buffer |-> "", lines |-> lines]

\* Mutant of Feed: the buffer is not reset when it is split, so that the lines
\* of earlier chunks are split out again.
FeedKeepingBuffer(buf, chunk) ==
    LET content == buf \o chunk
        lines   == Split(content, "\n")
    IN  IF ~HasSuffix(content, "\n") /\ Len(lines) > 0
        THEN [buffer |-> content, lines |-> SubSeq(lines, 1, Len(lines) - 1)]
        ELSE [buffer |-> "", lines |-> lines]

\* The head of the chunk callback: the chunk is appended to buffer, the buffer
\* is split at line breaks, and the last part is kept in buffer when the
\* buffer did not end in a line break.
Feed(buf, chunk) ==
    LET content == buf \o chunk
        lines   == Split(content, "\n")
    IN  IF ~HasSuffix(content, "\n") /\ Len(lines) > 0
        THEN [buffer |-> lines[Len(lines)], lines |-> SubSeq(lines, 1, Len(lines) - 1)]
        ELSE [buffer |-> "", lines |-> lines]

\* The decoding of one line, in both handlers: the prefix test, the empty
\* payload test and json.Unmarshal.  ok is FALSE where the loop continues.
DecodeLine(line) ==
    IF ~HasPrefix(line, "data: ") THEN UnmarshalError
    ELSE LET data == TrimPrefix(line, "data: ")
         IN  IF data = "" THEN UnmarshalError ELSE Unmarshal(data)

\* Mutant of DecodeLines: the loop ends at the first line that does not decode.
RECURSIVE DecodeLinesStopAtError(_)
DecodeLinesStopAtError(lines) ==
    IF lines = <<>> THEN <<>>
    ELSE IF DecodeLine(Head(lines)).ok
    THEN <<DecodeLine(Head(lines)).event>> \o DecodeLinesStopAtError(Tail(lines))
    ELSE <<>>

\* The events decoded from lines, in order.
RECURSIVE DecodeLines(_)
DecodeLines(lines) ==
    IF lines = <<>> THEN <<>>
    ELSE LET d == DecodeLine(Head(lines))
         IN  (IF d.ok THEN <<d.event>> ELSE <<>>) \o DecodeLines(Tail(lines))

\* if event.Type == "text-delta" && event.Delta != ""
IsTextDelta(event) == event.Type = "text-delta" /\ event.Delta # ""

\* What the loops write to fullResponse / fullText for the decoded events.
RECURSIVE DeltaText(_)
DeltaText(evs) ==
    IF evs = <<>> THEN ""
    ELSE (IF IsTextDelta(Head(evs)) THEN Head(evs).Delta ELSE "") \o DeltaText(Tail(evs))

\* The content_block_delta event handleStream writes for a text delta.
TextDeltaEvent(delta) ==
    [type |-> "content_block_delta", index |-> 0, delta |-> "text_delta",
     text |-> MarshalString(delta)]

\* Mutant of DeltaEvents: the deltas of one chunk are written as one event.
DeltaEventsBatched(evs) ==
    IF DeltaText(evs) = "" THEN <<>> ELSE <<TextDeltaEvent(DeltaText(evs))>>

\* The events the chunk callback writes for the decoded events.
RECURSIVE DeltaEvents(_)
DeltaEvents(evs) ==
    IF evs = <<>> THEN <<>>
    ELSE (IF IsTextDelta(Head(evs)) THEN <<TextDeltaEvent(Head(evs).Delta)>> ELSE <<>>)
         \o DeltaEvents(Tail(evs))

\* func escapeJSON(s string) string
\* The five ReplaceAll calls of escapeJSON replace single characters, the
\* backslash first: together they map each character on its own.
escapeJSONChar(c) ==
    CASE c = "\\" -> "\\\\"
      [] c = "\"" -> "\\\""
      [] c = "\n" -> "\\n"
      [] c = "\r" -> "\\r"
      [] c = "\t" -> "\\t"
      [] OTHER    -> c

RECURSIVE escapeJSON(_)
escapeJSON(s) ==
    IF s = "" THEN ""
    ELSE escapeJSONChar(Ch(s, 1)) \o escapeJSONChar(Ch(s, 2)) \o escapeJSONChar(Ch(s, 3))
         \o escapeJSONChar(Ch(s, 4)) \o escapeJSONChar(Ch(s, 5)) \o escapeJSONChar(Ch(s, 6))
         \o escapeJSONChar(Ch(s, 7)) \o escapeJSONChar(Ch(s, 8)) \o escapeJSON(Sub(s, 9, Len(s)))

\* json.Marshal(call.Input): the object of the map's entries, in key order.
RECURSIVE MarshalMembers(_)
MarshalMembers(input) ==
    IF input = <<>> THEN ""
    ELSE MarshalString(Head(input)[1]) \o ":" \o MarshalString(Head(input)[2])
         \o (IF Len(input) > 1 THEN "," ELSE "") \o MarshalMembers(Tail(input))

MarshalInput(input) == "{" \o MarshalMembers(input) \o "}"

\* Mutant of ToolBlockIndex: the loop variable itself, so that the first tool
\* block takes the index of the text block.
ToolBlockIndexFromZero(i) == i

\* The block index handleStream gives the tool call at loop index i (from 0).
ToolBlockIndex(i) == i + 1

\* Mutant of ToolEvents: the block is stopped before its delta is written.
ToolEventsStopFirst(i, call) ==
    << [type |-> "content_block_start", index |-> ToolBlockIndex(i),
        block |-> "tool_use", name |-> call.Name],
       [type |-> "content_block_stop", index |-> ToolBlockIndex(i)],
       [type |-> "content_block_delta", index |-> ToolBlockIndex(i),
        delta |-> "input_json_delta",
        partial_json |-> escapeJSON(MarshalInput(call.Input))] >>

\* The three events handleStream writes for the tool call at loop index i.
ToolEvents(i, call) ==
    << [type |-> "content_block_start", index |-> ToolBlockIndex(i),
        block |-> "tool_use", name |-> call.Name],
       [type |-> "content_block_delta", index |-> ToolBlockIndex(i),
        delta |-> "input_json_delta",
        partial_json |-> escapeJSON(MarshalInput(call.Input))],
       [type |-> "content_block_stop", index |-> ToolBlockIndex(i)] >>

\* handleStream: stopReason after ParseToolCalls.
StreamStopReason(calls) == IF Len(calls) > 0 THEN "tool_use" ELSE "end_turn"

\* Mutant of NonStreamStopReason: only the first block is looked at.
NonStreamStopReasonFirstBlock(blocks) ==
    IF Len(blocks) > 0 /\ blocks[1].type = "tool_use" THEN "tool_use" ELSE "end_turn"

\* handleNonStream: stopReason, from the content blocks.
NonStreamStopReason(blocks) ==
    IF \E i \in 1..Len(blocks) : blocks[i].type = "tool_use" THEN "tool_use" ELSE "end_turn"

\* The fixed texts of parseResponseToBlocks (stand-ins for the Chinese).
executingNotice == "{zh:zhengzai-zhixing-mingling}..."
successStatus   == "[ok] {zh:mingling-zhixing-chenggong}"
failureStatus   == "[x] {zh:mingling-zhixing-shibai}"

\* fmt.Sprintf("\n\n%s:\nFENCE\n%s\nFENCE", statusText, resultText)
ResultText(statusText, resultText) ==
    "\n\n" \o statusText \o ":\n" \o Fence \o "\n" \o resultText \o "\n" \o Fence

\* Mutant of Recovers: the recovery is tried although the parser found calls.
RecoversDespiteCalls(text, parsed) ==
    /\ DetectRefusal(text)
    /\ ExtractCommandFromRefusal(text) # ""

\* Mutant of Recovers: the recovery runs although no command was extracted.
RecoversWithoutCommand(text, parsed) ==
    /\ Len(parsed.toolCalls) = 0
    /\ DetectRefusal(text)

\* parseResponseToBlocks: whether the recovery branch is taken, for the answer
\* parsed of the parser.
Recovers(text, parsed) ==
    /\ Len(parsed.toolCalls) = 0
    /\ DetectRefusal(text)
    /\ ExtractCommandFromRefusal(text) # ""

\* The calls parseResponseToBlocks makes to toolExecutor.Execute, each with the
\* answer result it got.
ExecutorCalls(text, parsed, result) ==
    IF Recovers(text, parsed)
    THEN << [name   |-> "bash",
             input  |-> << <<"command", ExtractCommandFromRefusal(text)>> >>,
             result |-> result] >>
    ELSE <<>>

\* Mutant of RecoveryBlocks: the tool_use block comes before the notice.
RecoveryBlocksToolFirst(cmd, result) ==
    << [type |-> "tool_use", name |-> "bash", input |-> << <<"command", cmd>> >>],
       [type |-> "text", text |-> executingNotice],
       [type |-> "text",
        text |-> ResultText(IF result.failed THEN failureStatus ELSE successStatus,
                            IF result.failed THEN result.error ELSE result.output)] >>

\* Mutant of RecoveryBlocks: the result is reported as a success whatever the
\* executor returned.
RecoveryBlocksAlwaysSuccess(cmd, result) ==
    << [type |-> "text", text |-> executingNotice],
       [type |-> "tool_use", name |-> "bash", input |-> << <<"command", cmd>> >>],
       [type |-> "text", text |-> ResultText(successStatus, result.output)] >>

\* The blocks of the recovery branch, for the executor's answer result.
RecoveryBlocks(cmd, result) ==
    << [type |-> "text", text |-> executingNotice],
       [type |-> "tool_use", name |-> "bash", input |-> << <<"command", cmd>> >>],
       [type |-> "text",
        text |-> ResultText(IF result.failed THEN failureStatus ELSE successStatus,
                            IF result.failed THEN result.error ELSE result.output)] >>

\* Mutant of parseResponseToBlocks: without the fallback for an empty list of
\* blocks.
parseResponseToBlocksNoFallback(text, parsed, result) ==
    IF Recovers(text, parsed)
    THEN RecoveryBlocks(ExtractCommandFromRefusal(text), result)
    ELSE (IF parsed.remainingText # ""
          THEN << [type |-> "text", text |-> parsed.remainingText] >>
          ELSE <<>>)
         \o [i \in 1..Len(parsed.toolCalls) |->
                [type  |-> "tool_use",
                 name  |-> parsed.toolCalls[i].Name,
                 input |-> parsed.toolCalls[i].Input]]

\* func parseResponseToBlocks(text string, userMessages []string) []ContentBlock,
\* for the answers parsed of the parser and result of the executor.
parseResponseToBlocks(text, parsed, result) ==
    IF Recovers(text, parsed)
    THEN RecoveryBlocks(ExtractCommandFromRefusal(text), result)
    ELSE LET textBlocks == IF parsed.remainingText # ""
                           THEN << [type |-> "text", text |-> parsed.remainingText] >>
                           ELSE <<>>
             toolBlocks == [i \in 1..Len(parsed.toolCalls) |->
                               [type  |-> "tool_use",
                                name  |-> parsed.toolCalls[i].Name,
                                input |-> parsed.toolCalls[i].Input]]
             blocks     == textBlocks \o toolBlocks
         IN  IF Len(blocks) = 0 THEN << [type |-> "text", text |-> text] >> ELSE blocks

(***************************************************************************)
(* The state machine: one request, served by handleStream or by            *)
(* handleNonStream.                                                        *)
(***************************************************************************)
Init ==
    /\ stream \in BOOLEAN
    /\ upstream \in Upstreams
    /\ pos = 0
    /\ pc = "start"
    /\ buffer = ""
    /\ fullResponse = ""
    /\ events = <<>>
    /\ toolCalls = <<>>
    /\ toolIdx = 0
    /\ remainingText = ""
    /\ stopReason = ""
    /\ reply = <<>>
    /\ execLog = <<>>
    /\ frames = <<>>
    /\ decoded = <<>>
    /\ source = <<>>
    /\ probe = <<>>

\* The lines of one call of the chunk callback, as the history frames keeps
\* them: tail marks the last part of a buffer that ended in a line break, which
\* is the empty text after that line break.
TagLines(lines, closed) ==
    [i \in 1..Len(lines) |-> [text |-> lines[i], tail |-> closed /\ i = Len(lines)]]

\* handleStream up to the call of SendStreamRequest: message_start and the
\* start of block 0.
StreamStart ==
    /\ stream /\ pc = "start"
    /\ events' = events \o << [type |-> "message_start"],
                             [type |-> "content_block_start", index |-> 0, block |-> "text"] >>
    /\ pc' = "streaming"
    /\ UNCHANGED <<stream, upstream, pos, buffer, fullResponse, toolCalls, toolIdx,
                   remainingText, stopReason, reply, execLog, frames, decoded>>
    /\ UNCHANGED <<source, probe>>

\* The chunk callback, for the next n characters of the body.
OnChunk ==
    /\ pc = "streaming"
    /\ \E n \in 0..(Len(upstream) - pos) :
          \E chunk \in {Sub(upstream, pos + 1, pos + n)} :
          \E fed \in {Feed(buffer, chunk)} :
          \E evs \in {DecodeLines(fed.lines)} :
              /\ pos' = pos + n
              /\ buffer' = fed.buffer
              /\ fullResponse' = fullResponse \o DeltaText(evs)
              /\ events' = events \o DeltaEvents(evs)
              /\ decoded' = decoded \o evs
    /\ UNCHANGED <<stream, upstream, pc, toolCalls, toolIdx, remainingText, stopReason,
                   reply, execLog, frames>>
    /\ UNCHANGED <<source, probe>>

\* Mutant of ErrorEvents: the error is not reported.
ErrorEventsSilent(err) == <<>>

\* handleStream: the error event written when SendStreamRequest returned err.
ErrorEvents(err) == IF err THEN << [type |-> "error"] >> ELSE <<>>

\* SendStreamRequest returns: with an error at any point, without one when the
\* whole body has been delivered.  The error event, then the stop of block 0.
StreamReturn ==
    /\ pc = "streaming"
    /\ \E err \in BOOLEAN :
          /\ ~err => pos = Len(upstream)
          /\ events' = events \o ErrorEvents(err)
                              \o << [type |-> "content_block_stop", index |-> 0] >>
          /\ source' = source \o << [err |-> err] >>
    /\ pc' = "parse"
    /\ UNCHANGED <<stream, upstream, pos, buffer, fullResponse, toolCalls, toolIdx,
                   remainingText, stopReason, reply, execLog, frames, decoded>>
    /\ UNCHANGED probe

\* handleStream: ParseToolCalls over the accumulated text, and stopReason.
StreamParse ==
    /\ pc = "parse"
    /\ \E parsed \in ParseToolCalls(fullResponse) :
          /\ toolCalls' = parsed.toolCalls
          /\ stopReason' = StreamStopReason(parsed.toolCalls)
    /\ toolIdx' = 0
    /\ pc' = "tools"
    /\ UNCHANGED <<stream, upstream, pos, buffer, fullResponse, events, remainingText,
                   reply, execLog, frames, decoded>>
    /\ UNCHANGED <<source, probe>>

\* handleStream: one round of the loop over toolCalls.
StreamTool ==
    /\ pc = "tools" /\ toolIdx < Len(toolCalls)
    /\ events' = events \o ToolEvents(toolIdx, toolCalls[toolIdx + 1])
    /\ toolIdx' = toolIdx + 1
    /\ UNCHANGED <<stream, upstream, pos, pc, buffer, fullResponse, toolCalls,
                   remainingText, stopReason, reply, execLog, frames, decoded>>
    /\ UNCHANGED <<source, probe>>

\* handleStream: message_delta and message_stop.
StreamFinish ==
    /\ pc = "tools" /\ toolIdx = Len(toolCalls)
    /\ events' = events \o << [type |-> "message_delta", stop_reason |-> stopReason],
                             [type |-> "message_stop"] >>
    /\ pc' = "done"
    /\ UNCHANGED <<stream, upstream, pos, buffer, fullResponse, toolCalls, toolIdx,
                   remainingText, stopReason, reply, execLog, frames, decoded>>
    /\ UNCHANGED <<source, probe>>

\* handleNonStream: SendRequest returns an error.
NonStreamError ==
    /\ ~stream /\ pc = "start"
    /\ reply' = [status |-> 500, content |-> <<>>, stop_reason |-> ""]
    /\ pc' = "done"
    /\ UNCHANGED <<stream, upstream, pos, buffer, fullResponse, events, toolCalls,
                   toolIdx, remainingText, stopReason, execLog, frames, decoded>>
    /\ source' = source \o << [err |-> TRUE] >>
    /\ UNCHANGED probe

\* handleNonStream: SendRequest returns the whole body; the text of its lines,
\* parseResponseToBlocks and the answer.
NonStreamRespond ==
    /\ ~stream /\ pc = "start"
    /\ LET responseText == DeltaText(DecodeLines(Split(upstream, "\n")))
       IN  \E parsed \in ParseToolCalls(responseText), result \in ExecuteOutcomes :
              LET contentBlocks == parseResponseToBlocks(responseText, parsed, result)
              IN  /\ fullResponse' = responseText
                  /\ toolCalls' = parsed.toolCalls
                  /\ remainingText' = parsed.remainingText
                  /\ execLog' = execLog \o ExecutorCalls(responseText, parsed, result)
                  /\ reply' = [status      |-> 200,
                               content     |-> contentBlocks,
                               stop_reason |-> NonStreamStopReason(contentBlocks)]
    /\ pos' = Len(upstream)
    /\ pc' = "done"
    /\ UNCHANGED <<stream, upstream, buffer, events, toolIdx, stopReason, frames, decoded>>
    /\ source' = source \o << [err |-> FALSE] >>
    /\ UNCHANGED probe

Next ==
    \/ StreamStart
    \/ OnChunk
    \/ StreamReturn
    \/ StreamParse
    \/ StreamTool
    \/ StreamFinish
    \/ NonStreamError
    \/ NonStreamRespond

Spec == Init /\ [][Next]_vars

(***************************************************************************)
(* The reassembler alone: the head of the chunk callback (Feed) applied to *)
(* every text over a small alphabet, cut into chunks in every way.         *)
(***************************************************************************)
feedAlphabet == {"a", "b", "\n"}

\* The texts of at most n characters.
RECURSIVE FeedTexts(_)
FeedTexts(n) ==
    IF n = 0 THEN {""}
    ELSE FeedTexts(n - 1) \cup {t \o c : t \in FeedTexts(n - 1), c \in feedAlphabet}

InitFeed ==
    /\ stream = TRUE
    /\ upstream \in FeedTexts(MaxText)
    /\ pos = 0
    /\ pc = "feed"
    /\ buffer = ""
    /\ fullResponse = ""
    /\ events = <<>>
    /\ toolCalls = <<>>
    /\ toolIdx = 0
    /\ remainingText = ""
    /\ stopReason = ""
    /\ reply = <<>>
    /\ execLog = <<>>
    /\ frames = <<>>
    /\ decoded = <<>>
    /\ source = <<>>
    /\ probe = <<>>

\* One call of the chunk callback up to its loop, for the next n characters.
FeedChunk ==
    /\ pc = "feed"
    /\ \E n \in 0..(Len(upstream) - pos) :
          \E chunk \in {Sub(upstream, pos + 1, pos + n)} :
          \E fed \in {Feed(buffer, chunk)} :
              /\ pos' = pos + n
              /\ buffer' = fed.buffer
              /\ frames' = frames \o TagLines(fed.lines, HasSuffix(buffer \o chunk, "\n"))
    /\ UNCHANGED <<stream, upstream, pc, fullResponse, events, toolCalls, toolIdx,
                   remainingText, stopReason, reply, execLog, decoded>>
    /\ UNCHANGED <<source, probe>>

NextFeed == FeedChunk

SpecFeed == InitFeed /\ [][NextFeed]_vars

(***************************************************************************)
(* The classifier alone (SpecIntent): DetectRefusal,                       *)
(* ExtractCommandFromRefusal and ParseUserIntent applied to texts and      *)
(* messages of small sets.  probe holds the argument (input: the messages, *)
(* or the one response text), what the function returned for it (refusal,  *)
(* command or intent) and, when the argument was derived from an earlier   *)
(* one (base), how (relation) and what was returned for that (baseOut).    *)
(***************************************************************************)
\* Texts around the refusal patterns.
refusalTexts ==
    { "", "ok", "I can", "I can't", "i CAN'T do it", "Unable", "UNABLE TO",
      "cannot", "Cannot Directly", "don't have access", "{zh:wo-wufa}" }

\* Parts of a text that suggests a command: plain text, lines of the verb and
\* redirection patterns, and fenced blocks (a bash, a sh and an unnamed one of
\* white space only, and one of another language).
commandPieces ==
    << "Run it:",
       "ls -la",
       "out > log.txt",
       "cat",
       Fence \o "bash\npwd\n" \o Fence,
       Fence \o "sh\n echo hi \n" \o Fence,
       Fence \o "\n \n" \o Fence,
       Fence \o "python\nls\n" \o Fence >>

\* The texts of exactly n pieces, one per line.
RECURSIVE PieceTexts(_)
PieceTexts(n) ==
    IF n = 0 THEN {""}
    ELSE {(IF t = "" THEN "" ELSE t \o "\n") \o commandPieces[i] :
             t \in PieceTexts(n - 1), i \in 1..Len(commandPieces)}

classifierTexts == refusalTexts \cup UNION {PieceTexts(n) : n \in 1..MaxPieces}

\* What a text is put between to get a text that contains it.
affixes == {"", "x", " ", "\n"}

ToUpperChar(c) ==
    IF c = "" \/ Occurrences(LowerLetters, c) = {} THEN c
    ELSE Ch(UpperLetters, Min(Occurrences(LowerLetters, c)))

RECURSIVE ToUpper(_)
ToUpper(s) == IF s = "" THEN "" ELSE ToUpperChar(Ch(s, 1)) \o ToUpper(Sub(s, 2, Len(s)))

\* Texts that differ from s in letter case only.
CaseVariants(s) == {ToUpper(s), ToLower(s), ToUpper(Sub(s, 1, 1)) \o Sub(s, 2, Len(s))}

userMessages ==
    << "create a file",
       "read the file x.txt",
       "please run this command",
       "write 'hi' to '/tmp/a.txt'",
       "content: hello",
       "hello",
       "Execute \"it\"",
       "{zh:chuang}{zh:jian}{zh:wen}{zh:jian2} 'a.go'" >>

\* The sequences of exactly n messages.
RECURSIVE MessageLists(_)
MessageLists(n) ==
    IF n = 0 THEN {<<>>}
    ELSE {Append(ms, userMessages[i]) : ms \in MessageLists(n - 1), i \in 1..Len(userMessages)}

\* The Intent of no message: &Intent{}.
NoIntent == [Action |-> "", FilePath |-> "", Content |-> "", Command |-> ""]

NewProbe(arg, input) ==
    [arg |-> arg, fn |-> "", input |-> input,
     refusal |-> FALSE, command |-> "", intent |-> NoIntent,
     relation |-> "", base |-> "", baseOut |-> FALSE]

InitIntent ==
    /\ probe \in {NewProbe("response", <<t>>) : t \in classifierTexts}
                 \cup {NewProbe("messages", ms) :
                          ms \in UNION {MessageLists(n) : n \in 1..MaxMessages}}
    /\ stream = FALSE
    /\ upstream = ""
    /\ pos = 0
    /\ pc = "intent"
    /\ buffer = ""
    /\ fullResponse = ""
    /\ events = <<>>
    /\ toolCalls = <<>>
    /\ toolIdx = 0
    /\ remainingText = ""
    /\ stopReason = ""
    /\ reply = <<>>
    /\ execLog = <<>>
    /\ frames = <<>>
    /\ decoded = <<>>
    /\ source = <<>>

handlerVars ==
    <<stream, upstream, pos, pc, buffer, fullResponse, events, toolCalls, toolIdx,
      remainingText, stopReason, reply, execLog, frames, decoded, source>>

\* tools.DetectRefusal(text)
Detect ==
    /\ pc = "intent" /\ probe.arg = "response" /\ probe.fn = ""
    /\ probe' = [probe EXCEPT !.fn = "DetectRefusal",
                              !.refusal = DetectRefusal(probe.input[1])]
    /\ UNCHANGED handlerVars

\* tools.DetectRefusal for a text that contains the text of the last call.
DetectContaining ==
    /\ pc = "intent" /\ probe.fn = "DetectRefusal" /\ probe.relation = ""
    /\ \E pre \in affixes, post \in affixes :
          probe' = [probe EXCEPT !.input = <<pre \o probe.input[1] \o post>>,
                                 !.refusal = DetectRefusal(pre \o probe.input[1] \o post),
                                 !.relation = "contains",
                                 !.base = probe.input[1],
                                 !.baseOut = probe.refusal]
    /\ UNCHANGED handlerVars

\* tools.DetectRefusal for the text of the last call in another letter case.
DetectRecased ==
    /\ pc = "intent" /\ probe.fn = "DetectRefusal" /\ probe.relation = ""
    /\ \E v \in CaseVariants(probe.input[1]) :
          probe' = [probe EXCEPT !.input = <<v>>,
                                 !.refusal = DetectRefusal(v),
                                 !.relation = "case",
                                 !.base = probe.input[1],
                                 !.baseOut = probe.refusal]
    /\ UNCHANGED handlerVars

\* tools.ExtractCommandFromRefusal(text)
Extract ==
    /\ pc = "intent" /\ probe.arg = "response" /\ probe.fn = ""
    /\ probe' = [probe EXCEPT !.fn = "ExtractCommandFromRefusal",
                              !.command = ExtractCommandFromRefusal(probe.input[1])]
    /\ UNCHANGED handlerVars

\* p.ParseUserIntent(messages)
Parse ==
    /\ pc = "intent" /\ probe.arg = "messages" /\ probe.fn = ""
    /\ probe' = [probe EXCEPT !.fn = "ParseUserIntent",
                              !.intent = ParseUserIntent(probe.input)]
    /\ UNCHANGED handlerVars

NextIntent ==
    \/ Detect
    \/ DetectContaining
    \/ DetectRecased
    \/ Extract
    \/ Parse

SpecIntent == InitIntent /\ [][NextIntent]_vars

(***************************************************************************)
(* Readings of the state that the properties below use.                    *)
(***************************************************************************)
IsPrefix(a, b) == Len(a) <= Len(b) /\ SubSeq(b, 1, Len(a)) = a

\* The text a client reads from the JSON string literal lit.
Unquote(lit) ==
    IF Ch(lit, 1) = "\"" /\ ScanString(lit, 2).ok /\ ScanString(lit, 2).next = Len(lit) + 1
    THEN ScanString(lit, 2).val
    ELSE "{invalid}"

\* What an event is, apart from its payload: its type, the index of its block
\* (-1 for an event of the message) and the type of the block or delta.
Shape(e) ==
    CASE e.type = "content_block_start" -> <<e.type, e.index, e.block>>
      [] e.type = "content_block_delta" -> <<e.type, e.index, e.delta>>
      [] e.type = "content_block_stop"  -> <<e.type, e.index, "">>
      [] OTHER                          -> <<e.type, -1, "">>

Shapes == [i \in 1..Len(events) |-> Shape(events[i])]

TextDeltaShape == <<"content_block_delta", 0, "text_delta">>

\* The shapes of the three events of tool blocks 1..t, in order.
ToolShapes(t) ==
    [j \in 1..(3 * t) |->
        CASE j % 3 = 1 -> <<"content_block_start", ((j - 1) \div 3) + 1, "tool_use">>
          [] j % 3 = 2 -> <<"content_block_delta", ((j - 1) \div 3) + 1, "input_json_delta">>
          [] OTHER     -> <<"content_block_stop", ((j - 1) \div 3) + 1, "">>]

\* The whole event sequence of a response with k text deltas, an error event
\* iff err, and t tool invocations.
Grammar(k, err, t) ==
    << <<"message_start", -1, "">>, <<"content_block_start", 0, "text">> >>
    \o [i \in 1..k |-> TextDeltaShape]
    \o (IF err THEN << <<"error", -1, "">> >> ELSE <<>>)
    \o << <<"content_block_stop", 0, "">> >>
    \o ToolShapes(t)
    \o << <<"message_delta", -1, "">>, <<"message_stop", -1, "">> >>

EventsOfType(type) == {i \in 1..Len(events) : events[i].type = type}

TextDeltaCount == Cardinality({i \in 1..Len(events) : Shapes[i] = TextDeltaShape})

\* C1: in every state of a streaming request the events written so far are the
\* beginning of message_start, content_block_start(0, text), the text deltas of
\* block 0, at most one error, content_block_stop(0), one start/delta/stop
\* triple per tool invocation in the parser's order, message_delta,
\* message_stop; when the handler has returned they are that whole sequence
\* with one triple per parsed invocation; message_stop is written at most once
\* (exactly once when the handler has returned) and nothing follows it.
EventOrder ==
    stream =>
        /\ \E err \in BOOLEAN, t \in 0..MaxTools :
              IsPrefix(Shapes, Grammar(TextDeltaCount, err, t))
        /\ pc = "done" =>
              \E err \in BOOLEAN : Shapes = Grammar(TextDeltaCount, err, Len(toolCalls))
        /\ \A i \in EventsOfType("content_block_start") :
              events[i].index > 0 =>
                  /\ events[i].index <= Len(toolCalls)
                  /\ events[i].name = toolCalls[events[i].index].Name
        /\ Cardinality(EventsOfType("message_stop")) <= 1
        /\ \A i \in EventsOfType("message_stop") : i = Len(events)
        /\ pc = "done" => Cardinality(EventsOfType("message_stop")) = 1

\* A finished streaming response with text deltas, an upstream error and two
\* tool invocations.
EventOrderWitness ==
    /\ stream /\ pc = "done"
    /\ TextDeltaCount >= 2
    /\ EventsOfType("error") # {}
    /\ Len(toolCalls) >= 2
    /\ events[Len(events)].type = "message_stop"

\* The index of the block that is open just before event i: the block of the
\* one content_block_start before i that no content_block_stop follows before
\* i; -1 when there is not exactly one.
OpenBlock(i) ==
    LET open == {j \in 1..(i - 1) :
                    /\ events[j].type = "content_block_start"
                    /\ \A m \in (j + 1)..(i - 1) : events[m].type # "content_block_stop"}
    IN  IF Cardinality(open) = 1 THEN events[CHOOSE j \in open : TRUE].index ELSE -1

IsBlockStart(e) == e.type = "content_block_start"

\* C2: the indices of the content_block_start events of a streaming response
\* are 0, 1, 2, ... in the order written, 0..N when the handler has returned
\* with N tool invocations, and every content_block_delta and
\* content_block_stop carries the index of the one block open at that point.
BlockIndices ==
    stream =>
        /\ \A j \in 1..Len(SelectSeq(events, IsBlockStart)) :
              SelectSeq(events, IsBlockStart)[j].index = j - 1
        /\ pc = "done" => Len(SelectSeq(events, IsBlockStart)) = Len(toolCalls) + 1
        /\ \A i \in EventsOfType("content_block_delta") \cup EventsOfType("content_block_stop") :
              events[i].index = OpenBlock(i)

\* A finished streaming response with two tool blocks after the text block.
BlockIndicesWitness ==
    /\ stream /\ pc = "done"
    /\ Len(toolCalls) = 2
    /\ Len(SelectSeq(events, IsBlockStart)) = 3
    /\ TextDeltaCount >= 1

IsBlock0Delta(e) == e.type = "content_block_delta" /\ e.index = 0 /\ e.delta = "text_delta"

\* The texts a client reads from the deltas of block 0, in order.
Block0Texts ==
    [i \in 1..Len(SelectSeq(events, IsBlock0Delta)) |->
        Unquote(SelectSeq(events, IsBlock0Delta)[i].text)]

\* The complete lines of the part of the body delivered so far.
DeliveredLines ==
    SubSeq(Split(Sub(upstream, 1, pos), "\n"), 1,
           Len(Split(Sub(upstream, 1, pos), "\n")) - 1)

\* The non-empty deltas of the text-delta events decoded from those lines.
UpstreamDeltas ==
    [i \in 1..Len(SelectSeq(DecodeLines(DeliveredLines), IsTextDelta)) |->
        SelectSeq(DecodeLines(DeliveredLines), IsTextDelta)[i].Delta]

\* C3: in a streaming response the texts of the content_block_delta events of
\* block 0 are, one for one and in order, the non-empty deltas of the
\* text-delta events decoded from the upstream lines, and their concatenation
\* is the accumulated text (fullResponse) that tool-call parsing is given.
DeltaFidelity ==
    stream =>
        /\ Block0Texts = UpstreamDeltas
        /\ ConcatAll(Block0Texts) = fullResponse

\* Tool-call parsing is about to start after two deltas, one of which needed
\* escaping, were passed on.
DeltaFidelityWitness ==
    /\ stream /\ pc = "parse"
    /\ Len(Block0Texts) >= 2
    /\ \E i \in 1..Len(Block0Texts) :
          SelectSeq(events, IsBlock0Delta)[i].text # "\"" \o Block0Texts[i] \o "\""
    /\ fullResponse # ""

(***************************************************************************)
(* The reassembler (SpecFeed).                                             *)
(***************************************************************************)
FrameTexts(fs) == [i \in 1..Len(fs) |-> fs[i].text]

\* A frame that is a line of the text: every returned part but the empty one
\* after a line break that ended the buffer.
IsLineFrame(f) == ~f.tail

LineFrames == SelectSeq(frames, IsLineFrame)

\* The text fed so far.
Delivered == Sub(upstream, 1, pos)

\* The same text fed as one chunk.
OneChunk == Feed("", Delivered)

\* C4 as stated: however the text is cut into chunks, the parts returned are
\* the parts returned for the text fed as one chunk, and so is the pending
\* buffer.
FragmentationInvariance ==
    /\ FrameTexts(frames) = OneChunk.lines
    /\ buffer = OneChunk.buffer

\* C4, amended: however the text is cut into chunks, the line frames (the parts
\* returned other than the empty part after a line break that ended the
\* buffer) are those of the text fed as one chunk, and so is the pending
\* buffer.
FragmentationInvarianceOfLines ==
    /\ FrameTexts(LineFrames) =
          IF HasSuffix(Delivered, "\n")
          THEN SubSeq(OneChunk.lines, 1, Len(OneChunk.lines) - 1)
          ELSE OneChunk.lines
    /\ buffer = OneChunk.buffer

\* The whole text was fed in chunks of which two ended in a line break, and two
\* lines were returned.
FragmentationWitness ==
    /\ pos = Len(upstream)
    /\ Len(LineFrames) >= 2
    /\ Len(frames) >= Len(LineFrames) + 2

\* The texts ss, each followed by a line break.
RECURSIVE JoinLines(_)
JoinLines(ss) == IF ss = <<>> THEN "" ELSE Head(ss) \o "\n" \o JoinLines(Tail(ss))

LineBreaks(s) == Cardinality({i \in 1..Len(s) : Ch(s, i) = "\n"})

\* C5 as stated: after every feed the chunks fed so far are the returned parts,
\* each followed by a line break, followed by the pending buffer; the pending
\* buffer holds no line break; and no part is returned twice (there is one
\* part per line break fed).
Conservation ==
    /\ Delivered = JoinLines(FrameTexts(frames)) \o buffer
    /\ LineBreaks(buffer) = 0
    /\ Len(frames) = LineBreaks(Delivered)

\* C5, amended: the same, of the line frames.
ConservationOfLines ==
    /\ Delivered = JoinLines(FrameTexts(LineFrames)) \o buffer
    /\ LineBreaks(buffer) = 0
    /\ Len(LineFrames) = LineBreaks(Delivered)

\* Two lines have been returned, an unfinished line is pending and a chunk
\* ended in a line break.
ConservationWitness ==
    /\ Len(LineFrames) >= 2
    /\ buffer # ""
    /\ Len(frames) > Len(LineFrames)

(***************************************************************************)
(* Stop reason and recovery.                                               *)
(***************************************************************************)
IsToolStart(e) == e.type = "content_block_start" /\ e.block = "tool_use"

IsToolDelta(e) == e.type = "content_block_delta" /\ e.delta = "input_json_delta"

Answered == ~stream /\ pc = "done" /\ reply.status = 200

\* C6: the stop reason of message_delta in a streaming response, and of the
\* answer in a non-streaming one, is tool_use if a tool_use block is part of
\* that response and end_turn if none is.
StopReasonMatchesBlocks ==
    /\ stream =>
          \A i \in EventsOfType("message_delta") :
              events[i].stop_reason =
                  IF \E j \in 1..Len(events) : IsToolStart(events[j])
                  THEN "tool_use" ELSE "end_turn"
    /\ Answered =>
          reply.stop_reason =
              IF \E j \in 1..Len(reply.content) : reply.content[j].type = "tool_use"
              THEN "tool_use" ELSE "end_turn"

\* A non-streaming answer whose only tool_use block is the synthesized one.
StopReasonWitness ==
    /\ Answered
    /\ execLog # <<>>
    /\ reply.stop_reason = "tool_use"
    /\ reply.content[1].type = "text"

\* The case of the recovery: a non-streaming answer for a text in which the
\* parser found no call, that is a refusal and that suggests a command.
RecoveryCase ==
    /\ Answered
    /\ Len(toolCalls) = 0
    /\ DetectRefusal(fullResponse)
    /\ ExtractCommandFromRefusal(fullResponse) # ""

BashCall(c) == [name |-> "bash", input |-> << <<"command", c>> >>]

\* The executor was called once, with bash and the command c.
ExecutedOnce(c) ==
    /\ Len(execLog) = 1
    /\ [name |-> execLog[1].name, input |-> execLog[1].input] = BashCall(c)

\* C7 as stated: in the recovery case the executor is called with bash and the
\* command c, and the blocks are the notice, tool_use(bash, {command: c}) and a
\* text of the success marker and the captured output.
RecoveryShape ==
    RecoveryCase =>
        /\ ExecutedOnce(ExtractCommandFromRefusal(fullResponse))
        /\ reply.content =
              << [type |-> "text", text |-> executingNotice],
                 [type |-> "tool_use", name |-> "bash",
                  input |-> << <<"command", ExtractCommandFromRefusal(fullResponse)>> >>],
                 [type |-> "text",
                  text |-> ResultText(successStatus, execLog[1].result.output)] >>

\* C7, amended: in the recovery case of a non-streaming request the executor is
\* called with bash and the command c and the blocks are the notice,
\* tool_use(bash, {command: c}) and a third text; when the executor returned no
\* error that text is the success marker and the captured output.
RecoveryShapeOnSuccess ==
    RecoveryCase =>
        /\ ExecutedOnce(ExtractCommandFromRefusal(fullResponse))
        /\ Len(reply.content) = 3
        /\ reply.content[1] = [type |-> "text", text |-> executingNotice]
        /\ reply.content[2] =
              [type |-> "tool_use", name |-> "bash",
               input |-> << <<"command", ExtractCommandFromRefusal(fullResponse)>> >>]
        /\ reply.content[3].type = "text"
        /\ ~execLog[1].result.failed =>
              reply.content[3].text = ResultText(successStatus, execLog[1].result.output)

\* The recovery ran and the executor returned its output without an error.
RecoveryWitness ==
    /\ RecoveryCase
    /\ Len(execLog) = 1
    /\ ~execLog[1].result.failed
    /\ Len(reply.content) = 3

\* The accumulated text of the example, and the same text worded with a phrase
\* of refusalPatterns.
CannotExecuteText == "I cannot execute that. Run: \n" \o Fence \o "bash\nls -la\n" \o Fence

CantExecuteText == "I can't execute that. Run: \n" \o Fence \o "bash\nls -la\n" \o Fence

BlockTypes(blocks) == [i \in 1..Len(blocks) |-> blocks[i].type]

\* The answer is text, tool_use(bash, {command: "ls -la"}), text with stop
\* reason tool_use, after one call of the executor with that command.
RecoveredLs ==
    /\ ExecutedOnce("ls -la")
    /\ BlockTypes(reply.content) = <<"text", "tool_use", "text">>
    /\ reply.content[2].name = "bash"
    /\ reply.content[2].input = << <<"command", "ls -la">> >>
    /\ reply.stop_reason = "tool_use"

StreamRecovery ==
    (/\ stream /\ pc = "done"
     /\ Len(toolCalls) = 0
     /\ DetectRefusal(fullResponse)
     /\ ExtractCommandFromRefusal(fullResponse) # "") =>
        /\ ExecutedOnce(ExtractCommandFromRefusal(fullResponse))
        /\ \E i \in 1..Len(events) : IsToolStart(events[i]) /\ events[i].name = "bash"
        /\ \A i \in EventsOfType("message_delta") : events[i].stop_reason = "tool_use"

\* A block, as a client holds it: type, text, tool name and the JSON of the
\* tool input.
ClientBlock(type, text, name, input) ==
    [type |-> type, text |-> text, name |-> name, input |-> input]

\* The blocks a client assembles from the events of a streaming response.
StreamBlocks ==
    << ClientBlock("text", ConcatAll(Block0Texts), "", "") >>
    \o [i \in 1..Len(SelectSeq(events, IsToolStart)) |->
           ClientBlock("tool_use", "", SelectSeq(events, IsToolStart)[i].name,
                       Unquote("\"" \o SelectSeq(events, IsToolDelta)[i].partial_json \o "\""))]

\* The blocks a client reads from the content array of a non-streaming answer.
AnswerBlocks(blocks) ==
    [i \in 1..Len(blocks) |->
        IF blocks[i].type = "text"
        THEN ClientBlock("text", blocks[i].text, "", "")
        ELSE ClientBlock("tool_use", "", blocks[i].name, MarshalInput(blocks[i].input))]

\* C10: the blocks of a finished streaming response are the content array that
\* the non-streaming path builds for the same accumulated text, the same
\* answer of the parser and any answer of the executor, and the stop reasons
\* are the same.
PathsAgree ==
    (stream /\ pc = "done") =>
        \E parsed \in ParseToolCalls(fullResponse) :
            /\ parsed.toolCalls = toolCalls
            /\ \A result \in ExecuteOutcomes :
                  /\ AnswerBlocks(parseResponseToBlocks(fullResponse, parsed, result)) = StreamBlocks
                  /\ \A i \in EventsOfType("message_delta") :
                        events[i].stop_reason =
                            NonStreamStopReason(parseResponseToBlocks(fullResponse, parsed, result))

(***************************************************************************)
(* Structured calls, executor failure, no recovery.                        *)
(***************************************************************************)
IsToolUse(b) == b.type = "tool_use"

\* The tool_use blocks a client holds for the parsed calls, in their order.
CallBlocks ==
    [i \in 1..Len(toolCalls) |->
        ClientBlock("tool_use", "", toolCalls[i].Name, MarshalInput(toolCalls[i].Input))]

\* C11: when the parser returned N >= 1 calls, the tool_use blocks of the
\* response (streaming or not) are those N calls, in the parser's order with
\* its names and inputs, and the executor has not been called, whatever the
\* text holds.
StructuredCallsOnly ==
    /\ (Answered /\ Len(toolCalls) >= 1) =>
          /\ execLog = <<>>
          /\ SelectSeq(AnswerBlocks(reply.content), IsToolUse) = CallBlocks
    /\ (stream /\ pc = "done" /\ Len(toolCalls) >= 1) =>
          /\ execLog = <<>>
          /\ SelectSeq(StreamBlocks, IsToolUse) = CallBlocks

\* A non-streaming answer with two parsed calls for a text that is a refusal
\* and suggests a command.
StructuredCallsWitness ==
    /\ Answered
    /\ Len(toolCalls) = 2
    /\ DetectRefusal(fullResponse)
    /\ ExtractCommandFromRefusal(fullResponse) # ""
    /\ execLog = <<>>

\* C12: the executor is called at most once for a request; when that call
\* returned an error the request is still answered with status 200 and the
\* blocks text, tool_use(bash, {command}), text, the last one holding the
\* failure marker and the error text, with stop reason tool_use.
ExecutorFailureFolded ==
    /\ Len(execLog) <= 1
    /\ (execLog # <<>> /\ execLog[1].result.failed) =>
          /\ Answered
          /\ BlockTypes(reply.content) = <<"text", "tool_use", "text">>
          /\ reply.content[1].text = executingNotice
          /\ reply.content[2].name = "bash"
          /\ reply.content[2].input = execLog[1].input
          /\ reply.content[3].text = ResultText(failureStatus, execLog[1].result.error)
          /\ reply.stop_reason = "tool_use"

\* The executor was called and returned an error.
ExecutorFailureWitness ==
    /\ Answered
    /\ Len(execLog) = 1
    /\ execLog[1].result.failed
    /\ execLog[1].result.error # ""

\* The text is no refusal, or a refusal that suggests no command.
NoRecoveryCase(text) == ~DetectRefusal(text) \/ ExtractCommandFromRefusal(text) = ""

\* C13: when the parser returned no call and the text is no refusal or
\* suggests no command, the executor is not called, the response is one text
\* block (the remaining text of the parser, or the text itself when that is
\* empty; in a streaming response the deltas of block 0) and the stop reason is
\* end_turn.
NoRecovery ==
    /\ (Answered /\ Len(toolCalls) = 0 /\ NoRecoveryCase(fullResponse)) =>
          /\ execLog = <<>>
          /\ reply.content =
                << [type |-> "text",
                    text |-> IF remainingText # "" THEN remainingText ELSE fullResponse] >>
          /\ reply.stop_reason = "end_turn"
    /\ (stream /\ pc = "done" /\ Len(toolCalls) = 0 /\ NoRecoveryCase(fullResponse)) =>
          /\ execLog = <<>>
          /\ StreamBlocks = << ClientBlock("text", fullResponse, "", "") >>
          /\ \A i \in EventsOfType("message_delta") : events[i].stop_reason = "end_turn"

\* A refusal that suggests no command has been answered.
NoRecoveryWitness ==
    /\ Answered
    /\ Len(toolCalls) = 0
    /\ DetectRefusal(fullResponse)
    /\ ExtractCommandFromRefusal(fullResponse) = ""
    /\ Len(reply.content) = 1

(***************************************************************************)
(* Corrupt frames and upstream errors.                                     *)
(***************************************************************************)
Decodes(line) == DecodeLine(line).ok

\* The delivered lines without those that do not decode.
CleanLines == SelectSeq(DeliveredLines, Decodes)

\* The last part of the delivered text, after its last line break.
PendingPart == Split(Delivered, "\n")[Len(Split(Delivered, "\n"))]

DeltasOf(evs) ==
    [i \in 1..Len(SelectSeq(evs, IsTextDelta)) |-> SelectSeq(evs, IsTextDelta)[i].Delta]

\* C14: the events decoded, the deltas written to the client and the
\* accumulated text of a streaming response are those of the delivered lines
\* with every line that does not decode (no "data: " prefix, empty payload, no
\* JSON) left out, the pending buffer is the unfinished last line, and the
\* text of a non-streaming response is that of the body without such lines.
CorruptFramesSkipped ==
    /\ stream =>
          /\ decoded = DecodeLines(CleanLines)
          /\ Len(decoded) = Len(CleanLines)
          /\ Block0Texts = DeltasOf(DecodeLines(CleanLines))
          /\ fullResponse = DeltaText(DecodeLines(CleanLines))
          /\ pc \in {"streaming", "parse"} => buffer = PendingPart
    /\ Answered =>
          fullResponse = DeltaText(DecodeLines(SelectSeq(Split(upstream, "\n"), Decodes)))

\* A line that does not decode was delivered before a text-delta line, and the
\* delta of that line has been passed on.
CorruptFramesWitness ==
    /\ stream /\ pc = "parse"
    /\ \E i, j \in 1..Len(DeliveredLines) :
          /\ i < j
          /\ HasPrefix(DeliveredLines[i], "data: {")
          /\ ~Decodes(DeliveredLines[i])
          /\ Decodes(DeliveredLines[j])
          /\ IsTextDelta(DecodeLine(DeliveredLines[j]).event)
    /\ Len(Block0Texts) >= 1

\* C15: the upstream source is called once for a streaming request; when it
\* returned an error there is exactly one error event, after every delta of
\* block 0 and just before content_block_stop(0), and when it returned none
\* (or has not returned) there is no error event; the response ends with
\* message_delta and message_stop either way.
UpstreamErrorReported ==
    stream =>
        /\ Len(source) <= 1
        /\ Cardinality(EventsOfType("error")) =
              IF source # <<>> /\ source[1].err THEN 1 ELSE 0
        /\ \A e \in EventsOfType("error") :
              /\ \A i \in 1..Len(events) : IsBlock0Delta(events[i]) => i < e
              /\ e < Len(events)
              /\ events[e + 1] = [type |-> "content_block_stop", index |-> 0]
        /\ pc = "done" =>
              /\ Len(source) = 1
              /\ events[Len(events) - 1].type = "message_delta"
              /\ events[Len(events)].type = "message_stop"

\* The source returned an error after a part of the body, of which a delta had
\* been passed on, and the response has been ended.
UpstreamErrorWitness ==
    /\ stream /\ pc = "done"
    /\ source = << [err |-> TRUE] >>
    /\ pos < Len(upstream)
    /\ TextDeltaCount >= 1

(***************************************************************************)
(* The classifier alone: properties of SpecIntent.                         *)
(***************************************************************************)
\* C16: DetectRefusal is monotonic under containment and blind to letter
\* case: a text that contains a text classified as a refusal is classified as
\* a refusal, and two texts that differ in letter case only are classified
\* alike.
RefusalMonotonic ==
    probe.fn = "DetectRefusal" =>
        /\ probe.relation = "contains" =>
              /\ Contains(probe.input[1], probe.base)
              /\ probe.baseOut => probe.refusal
        /\ probe.relation = "case" =>
              /\ ToLower(probe.input[1]) = ToLower(probe.base)
              /\ probe.refusal = probe.baseOut

\* A refusal has been extended on both sides and is still one.
RefusalMonotonicWitness ==
    /\ probe.fn = "DetectRefusal"
    /\ probe.relation = "contains"
    /\ probe.baseOut /\ probe.refusal
    /\ Len(probe.input[1]) >= Len(probe.base) + 2

\* The three rules of ExtractCommandFromRefusal on the probed text.
BlockRule == FindCodeBlock(probe.input[1])

VerbRule == FindVerbLine(probe.input[1])

RedirectRule == FindRedirect(probe.input[1])

Extracted == probe.fn = "ExtractCommandFromRefusal"

\* Texts and the commands expected of them, worked out by hand from the three
\* regular expressions.
extractExamples ==
    { <<"ls -la\n" \o Fence \o "bash\npwd\n" \o Fence, "pwd">>,
      <<"out > log.txt\n" \o Fence \o "sh\n echo hi \n" \o Fence, "echo hi">>,
      <<Fence \o "\n \n" \o Fence \o "\nls -la", "">>,
      <<"Run it:\nls -la", "ls -la">>,
      <<"cat\nls -la", "cat\nls -la">>,
      <<"out > log.txt\nls -la", "ls -la">>,
      <<"Run it:\nout > log.txt", "out > log.txt">>,
      <<Fence \o "python\nls\n" \o Fence, "ls\n" \o Fence>>,
      <<"Run it:", "">>,
      <<"cat", "">> }

\* C17 as stated: the first rule that matches decides the result, and the
\* result is empty exactly when none of the three rules matches.
ExtractEmptyOnlyWithoutMatch ==
    Extracted =>
        /\ BlockRule.found => probe.command = TrimSpace(BlockRule.text)
        /\ (~BlockRule.found /\ VerbRule.found) => probe.command = TrimSpace(VerbRule.text)
        /\ (~BlockRule.found /\ ~VerbRule.found /\ RedirectRule.found) =>
              probe.command = TrimSpace(RedirectRule.text)
        /\ probe.command = "" <=>
              (~BlockRule.found /\ ~VerbRule.found /\ ~RedirectRule.found)

\* C17, amended: the first rule that matches decides the result (the code
\* block before the verb pattern before the redirection pattern, wherever in
\* the text they match), the result is a part of the text without white space
\* around it, and it is empty exactly when no rule matches or the body of
\* the first code block is white space only.
ExtractPriority ==
    Extracted =>
        /\ BlockRule.found => probe.command = TrimSpace(BlockRule.text)
        /\ (~BlockRule.found /\ VerbRule.found) => probe.command = TrimSpace(VerbRule.text)
        /\ (~BlockRule.found /\ ~VerbRule.found /\ RedirectRule.found) =>
              probe.command = TrimSpace(RedirectRule.text)
        /\ probe.command = "" <=>
              \/ ~BlockRule.found /\ ~VerbRule.found /\ ~RedirectRule.found
              \/ BlockRule.found /\ TrimSpace(BlockRule.text) = ""
        /\ Contains(probe.input[1], probe.command)
        /\ TrimSpace(probe.command) = probe.command
        /\ \A ex \in extractExamples : probe.input[1] = ex[1] => probe.command = ex[2]

\* The body of a code block was extracted from a text whose first line
\* matches the verb pattern.
ExtractPriorityWitness ==
    /\ Extracted
    /\ BlockRule.found /\ VerbRule.found
    /\ HasPrefix(probe.input[1], "ls -la\n")
    /\ probe.command = "pwd"

\* The text the action patterns are matched against, and whether a pattern of
\* a list matches it.
ActionText == ToLower(Join(probe.input, " "))

MatchesAny(patterns) == \E i \in 1..Len(patterns) : MatchString(patterns[i], ActionText)

\* C18: each field of the intent is decided by the first pattern of its list
\* that matches the joined messages: the action is create_file when a create
\* pattern matches, also when a read or a run pattern matches as well, else
\* read_file when a read pattern matches, else run_command when a run pattern
\* matches; the path and the content are the groups of the first of their
\* patterns that matches; a field no pattern matches is empty.
ActionByFirstPattern ==
    probe.fn = "ParseUserIntent" =>
        /\ probe.intent.Action =
              IF MatchesAny(createPatterns) THEN "create_file"
              ELSE IF MatchesAny(readPatterns) THEN "read_file"
              ELSE IF MatchesAny(cmdPatterns) THEN "run_command"
              ELSE ""
        /\ probe.intent.FilePath = GuessPath(Join(probe.input, " "))
        /\ probe.intent.Content = GuessContent(Join(probe.input, " "))

(***************************************************************************)
(* The two handlers compared: properties of Spec.                          *)
(***************************************************************************)
\* The text handleNonStream accumulates for the body: that of the lines of
\* strings.Split(response, "\n").
NonStreamText == DeltaText(DecodeLines(Split(upstream, "\n")))

\* C19: for the same upstream body, the text accumulated by the streaming
\* path, once the source has delivered the whole body in whatever chunks and
\* returned without error, is the text the non-streaming path accumulates,
\* also when the last line of the body is a text-delta frame without a line
\* break after it.
SameAccumulatedText ==
    /\ (stream /\ pc \in {"parse", "tools", "done"} /\ source = << [err |-> FALSE] >>) =>
          fullResponse = NonStreamText
    /\ Answered => fullResponse = NonStreamText

\* C20: the content of a successful non-streaming response is never empty,
\* and when the parser returned no call and no remaining text and nothing was
\* recovered, it is one text block with the whole response text.
ContentNeverEmpty ==
    Answered =>
        /\ Len(reply.content) >= 1
        /\ (toolCalls = <<>> /\ remainingText = "" /\ execLog = <<>>) =>
              reply.content = << [type |-> "text", text |-> fullResponse] >>

\* The parser returned no call and no remaining text for a response text that
\* is not empty and no refusal, and the answer holds that text.
ContentNeverEmptyWitness ==
    /\ Answered
    /\ toolCalls = <<>> /\ remainingText = "" /\ execLog = <<>>
    /\ fullResponse # "" /\ ~DetectRefusal(fullResponse)
    /\ reply.content = << [type |-> "text", text |-> fullResponse] >>

====
